---- MODULE Spec2Model ----
(***************************************************************************)
(* envconfig-docs: extraction of envconfig-tagged struct fields from       *)
(* parsed Go packages (collectDecls, collectConfigTypes,                   *)
(* collectConfigTypesFromPackages) and their rendering (writeMarkdown).    *)
(*                                                                         *)
(* Text is a sequence of one-byte strings; a struct tag literal is parsed  *)
(* byte by byte, the way reflect.StructTag.Lookup parses it.  Opaque text  *)
(* (a comment line, a type identifier) is a sequence of longer pieces.     *)
(***************************************************************************)
EXTENDS Integers, Sequences, FiniteSets, TLC

\* ------------------------------------------------------------------ bytes

\* The byte 0x60 (the back quote that delimits a raw string literal), which
\* a TLA+ string cannot hold as itself.
BQ == "<60>"

\* The 256 bytes, in byte order: a printable ASCII byte is itself, tab,
\* newline, form feed and carriage return are their escapes, any other byte
\* is named by its hexadecimal value.
Bytes ==
  <<
     "<00>", "<01>", "<02>", "<03>", "<04>", "<05>", "<06>", "<07>",
     "<08>", "\t", "\n", "<0b>", "\f", "\r", "<0e>", "<0f>",
     "<10>", "<11>", "<12>", "<13>", "<14>", "<15>", "<16>", "<17>",
     "<18>", "<19>", "<1a>", "<1b>", "<1c>", "<1d>", "<1e>", "<1f>",
     " ", "!", "\"", "#", "$", "%", "&", "'",
     "(", ")", "*", "+", ",", "-", ".", "/",
     "0", "1", "2", "3", "4", "5", "6", "7",
     "8", "9", ":", ";", "<", "=", ">", "?",
     "@", "A", "B", "C", "D", "E", "F", "G",
     "H", "I", "J", "K", "L", "M", "N", "O",
     "P", "Q", "R", "S", "T", "U", "V", "W",
     "X", "Y", "Z", "[", "\\", "]", "^", "_",
     BQ, "a", "b", "c", "d", "e", "f", "g",
     "h", "i", "j", "k", "l", "m", "n", "o",
     "p", "q", "r", "s", "t", "u", "v", "w",
     "x", "y", "z", "{", "|", "}", "~", "<7f>",
     "<80>", "<81>", "<82>", "<83>", "<84>", "<85>", "<86>", "<87>",
     "<88>", "<89>", "<8a>", "<8b>", "<8c>", "<8d>", "<8e>", "<8f>",
     "<90>", "<91>", "<92>", "<93>", "<94>", "<95>", "<96>", "<97>",
     "<98>", "<99>", "<9a>", "<9b>", "<9c>", "<9d>", "<9e>", "<9f>",
     "<a0>", "<a1>", "<a2>", "<a3>", "<a4>", "<a5>", "<a6>", "<a7>",
     "<a8>", "<a9>", "<aa>", "<ab>", "<ac>", "<ad>", "<ae>", "<af>",
     "<b0>", "<b1>", "<b2>", "<b3>", "<b4>", "<b5>", "<b6>", "<b7>",
     "<b8>", "<b9>", "<ba>", "<bb>", "<bc>", "<bd>", "<be>", "<bf>",
     "<c0>", "<c1>", "<c2>", "<c3>", "<c4>", "<c5>", "<c6>", "<c7>",
     "<c8>", "<c9>", "<ca>", "<cb>", "<cc>", "<cd>", "<ce>", "<cf>",
     "<d0>", "<d1>", "<d2>", "<d3>", "<d4>", "<d5>", "<d6>", "<d7>",
     "<d8>", "<d9>", "<da>", "<db>", "<dc>", "<dd>", "<de>", "<df>",
     "<e0>", "<e1>", "<e2>", "<e3>", "<e4>", "<e5>", "<e6>", "<e7>",
     "<e8>", "<e9>", "<ea>", "<eb>", "<ec>", "<ed>", "<ee>", "<ef>",
     "<f0>", "<f1>", "<f2>", "<f3>", "<f4>", "<f5>", "<f6>", "<f7>",
     "<f8>", "<f9>", "<fa>", "<fb>", "<fc>", "<fd>", "<fe>", "<ff>"
  >>

\* Go's byte(n).
Chr(n) == Bytes[n + 1]

\* The value of each byte.
OrdTable ==
  [c \in {Bytes[k] : k \in 1..Len(Bytes)} |->
     (CHOOSE k \in 1..Len(Bytes) : Bytes[k] = c) - 1]

Ord(c) == OrdTable[c]

\* s[lo..] (Go's s[lo:]), 1-based lo.
From(s, lo) == SubSeq(s, lo, Len(s))

\* strings.Compare(a, b): -1, 0 or +1, byte-wise lexicographic.
RECURSIVE Compare(_, _)
Compare(a, b) ==
  IF a = <<>> /\ b = <<>> THEN 0
  ELSE IF a = <<>> THEN -1
  ELSE IF b = <<>> THEN 1
  ELSE IF Ord(Head(a)) < Ord(Head(b)) THEN -1
  ELSE IF Ord(Head(a)) > Ord(Head(b)) THEN 1
  ELSE Compare(Tail(a), Tail(b))

\* --------------------------------------------------- reflect.StructTag

NotFound == [ok |-> FALSE, value |-> <<>>]

\* unicode/utf8: EncodeRune; a rune that is not valid is encoded as U+FFFD.
EncodeRune(r) ==
  IF r < 0 \/ r > 1114111 \/ (55296 <= r /\ r <= 57343)
    THEN <<Chr(239), Chr(191), Chr(189)>>
  ELSE IF r < 128 THEN <<Chr(r)>>
  ELSE IF r < 2048 THEN <<Chr(192 + (r \div 64)), Chr(128 + (r % 64))>>
  ELSE IF r < 65536
    THEN <<Chr(224 + (r \div 4096)), Chr(128 + ((r \div 64) % 64)),
           Chr(128 + (r % 64))>>
  ELSE <<Chr(240 + (r \div 262144)), Chr(128 + ((r \div 4096) % 64)),
         Chr(128 + ((r \div 64) % 64)), Chr(128 + (r % 64))>>

\* utf8.RuneError and its width for an invalid encoding.
BadRune == [rune |-> 65533, size |-> 1]

\* A continuation byte within lo..hi.
Cont(s, k, lo, hi) == Len(s) >= k /\ Ord(s[k]) >= lo /\ Ord(s[k]) <= hi

\* utf8.DecodeRuneInString(s) for s that starts with a byte >= 0x80.
DecodeRune(s) ==
  LET b0 == Ord(s[1])
      lo == CASE b0 = 224 -> 160 [] b0 = 240 -> 144 [] OTHER -> 128
      hi == CASE b0 = 237 -> 159 [] b0 = 244 -> 143 [] OTHER -> 191
  IN IF b0 >= 194 /\ b0 <= 223
       THEN IF Cont(s, 2, 128, 191)
              THEN [rune |-> (b0 - 192) * 64 + (Ord(s[2]) - 128), size |-> 2]
              ELSE BadRune
     ELSE IF b0 >= 224 /\ b0 <= 239
       THEN IF Cont(s, 2, lo, hi) /\ Cont(s, 3, 128, 191)
              THEN [rune |-> (b0 - 224) * 4096 + (Ord(s[2]) - 128) * 64
                             + (Ord(s[3]) - 128),
                    size |-> 3]
              ELSE BadRune
     ELSE IF b0 >= 240 /\ b0 <= 244
       THEN IF Cont(s, 2, lo, hi) /\ Cont(s, 3, 128, 191) /\ Cont(s, 4, 128, 191)
              THEN [rune |-> (b0 - 240) * 262144 + (Ord(s[2]) - 128) * 4096
                             + (Ord(s[3]) - 128) * 64 + (Ord(s[4]) - 128),
                    size |-> 4]
              ELSE BadRune
     ELSE BadRune

\* utf8.ValidRune.
ValidRune(v) == (0 <= v /\ v < 55296) \/ (57343 < v /\ v <= 1114111)

\* strconv's unhex: the value of a hexadecimal digit, -1 for any other byte.
Unhex(c) ==
  LET b == Ord(c) IN
  IF b >= 48 /\ b <= 57 THEN b - 48
  ELSE IF b >= 97 /\ b <= 102 THEN b - 97 + 10
  ELSE IF b >= 65 /\ b <= 70 THEN b - 65 + 10
  ELSE -1

\* v = v<<4 | x over the digits (all hexadecimal).  The rune is an int32: a
\* value above 0x10FFFF, wrapped to a negative number or not, is no valid
\* rune, and is held at 0x110000 here.
RECURSIVE HexValue(_, _)
HexValue(v, digits) ==
  IF digits = <<>> THEN v
  ELSE LET w == v * 16 + Unhex(Head(digits))
       IN HexValue(IF w > 1114111 THEN 1114112 ELSE w, Tail(digits))

AllHex(digits) == \A k \in DOMAIN digits : Unhex(digits[k]) >= 0

\* The value of the escapes of one letter: \a \b \f \n \r \t \v, -1 for any
\* other byte.
SimpleEscape(c) ==
  CASE c = "a" -> 7
    [] c = "b" -> 8
    [] c = "f" -> 12
    [] c = "n" -> 10
    [] c = "r" -> 13
    [] c = "t" -> 9
    [] c = "v" -> 11
    [] OTHER -> -1

BadChar == [ok |-> FALSE, bytes |-> <<>>, size |-> 0]
GoodChar(bytes, size) == [ok |-> TRUE, bytes |-> bytes, size |-> size]

\* The escape after a backslash: c the byte after it, t what follows c.
\* (size counts the backslash and c.)
EscapeChar(c, t) ==
  IF SimpleEscape(c) >= 0 THEN GoodChar(<<Chr(SimpleEscape(c))>>, 2)
  ELSE IF c \in {"x", "u", "U"}
    THEN LET n == CASE c = "x" -> 2 [] c = "u" -> 4 [] OTHER -> 8
             digits == SubSeq(t, 1, n)
         IN IF Len(t) < n \/ ~AllHex(digits) THEN BadChar
            ELSE LET v == HexValue(0, digits)
                 IN IF c = "x" THEN GoodChar(<<Chr(v)>>, 2 + n)
                    ELSE IF ~ValidRune(v) THEN BadChar
                    ELSE GoodChar(EncodeRune(v), 2 + n)
  ELSE IF Ord(c) >= 48 /\ Ord(c) <= 55
    THEN IF Len(t) < 2 \/ \E k \in 1..2 : Ord(t[k]) < 48 \/ Ord(t[k]) > 55
           THEN BadChar
           ELSE LET v == (Ord(c) - 48) * 64 + (Ord(t[1]) - 48) * 8 + (Ord(t[2]) - 48)
                IN IF v > 255 THEN BadChar ELSE GoodChar(<<Chr(v)>>, 4)
  ELSE IF c = "\\" \/ c = "\"" THEN GoodChar(<<c>>, 2)
  ELSE BadChar

\* strconv.UnquoteChar(s, '"') for a non-empty s, with the bytes Unquote
\* appends for it: the byte of a rune below 0x80 or of a \x or octal escape,
\* the UTF-8 encoding of any other rune.
UnquoteChar(s) ==
  IF Head(s) = "\"" THEN BadChar
  ELSE IF Ord(Head(s)) >= 128
    THEN LET d == DecodeRune(s) IN GoodChar(EncodeRune(d.rune), d.size)
  ELSE IF Head(s) # "\\" THEN GoodChar(<<Head(s)>>, 1)
  ELSE IF Len(s) <= 1 THEN BadChar
  ELSE EscapeChar(s[2], From(s, 3))

\* The body of a double-quoted literal (quotes removed) unquoted: a newline
\* in it is a syntax error.  (Unquote returns a body with no backslash that
\* is valid UTF-8 as it is; this loop gives such a body the same value.)
RECURSIVE UnquoteBody(_)
UnquoteBody(s) ==
  IF s = <<>> THEN [ok |-> TRUE, value |-> <<>>]
  ELSE IF Head(s) = "\n" THEN NotFound
  ELSE LET ch == UnquoteChar(s) IN
       IF ~ch.ok THEN NotFound
       ELSE LET rest == UnquoteBody(From(s, ch.size + 1))
            IN IF rest.ok THEN [ok |-> TRUE, value |-> ch.bytes \o rest.value]
                          ELSE NotFound

\* strconv.Unquote(qvalue) for a qvalue that starts with a double quote.
Unquote(q) ==
  IF Len(q) < 2 \/ q[1] # "\"" \/ q[Len(q)] # "\"" THEN NotFound
  ELSE UnquoteBody(SubSeq(q, 2, Len(q) - 1))

\* Lookup's scans, each returning a 0-based offset as the Go loops do.
RECURSIVE SkipSpace(_, _)
SkipSpace(tag, i) ==
  IF i < Len(tag) /\ tag[i + 1] = " " THEN SkipSpace(tag, i + 1) ELSE i

RECURSIVE ScanName(_, _)
ScanName(tag, i) ==
  IF i < Len(tag) /\ Ord(tag[i + 1]) > 32 /\ tag[i + 1] # ":"
     /\ tag[i + 1] # "\"" /\ Ord(tag[i + 1]) # 127
    THEN ScanName(tag, i + 1)
    ELSE i

RECURSIVE ScanValue(_, _)
ScanValue(tag, i) ==
  IF i < Len(tag) /\ tag[i + 1] # "\""
    THEN ScanValue(tag, (IF tag[i + 1] = "\\" THEN i + 1 ELSE i) + 1)
    ELSE i

\* reflect.StructTag(tag).Lookup(key): [ok, value].
RECURSIVE Lookup(_, _)
Lookup(tag0, key) ==
  IF tag0 = <<>> THEN NotFound
  ELSE
    LET tag1 == From(tag0, SkipSpace(tag0, 0) + 1) IN
    IF tag1 = <<>> THEN NotFound
    ELSE
      LET i == ScanName(tag1, 0) IN
      IF i = 0 \/ i + 1 >= Len(tag1) \/ tag1[i + 1] # ":" \/ tag1[i + 2] # "\""
        THEN NotFound
      ELSE
        LET name == SubSeq(tag1, 1, i)
            tag2 == From(tag1, i + 2)
            j    == ScanValue(tag2, 1)
        IN IF j >= Len(tag2) THEN NotFound
           ELSE LET qvalue == SubSeq(tag2, 1, j + 1)
                    tag3   == From(tag2, j + 2)
                IN IF key = name THEN Unquote(qvalue) ELSE Lookup(tag3, key)

\* ------------------------------------------------------------ the syntax
\* What the extractor reads of go/ast, as records:
\*   package  [Syntax : sequence of files]
\*   file     [Decls : sequence of declarations]
\*   decl     [kind : "GenDecl" | "FuncDecl", comments, Specs]
\*            (comments: the comment groups CommentsByPos finds at the
\*             declaration's TokPos, each group the lines of its Text())
\*   spec     [kind : "TypeSpec" | "ValueSpec", Name, struct, Fields]
\*   field    [ident, Type : [kind, Name], hasTag, Tag, Doc]
\*            (hasTag FALSE: field.Tag is nil; Tag: field.Tag.Value, the
\*             literal with its delimiters; Doc: the lines of field.Doc.Text(),
\*             <<>> for a nil Doc)
\* A name, a tag and a value are text of one-byte strings; a comment line and
\* a type identifier are text of one piece.

\* The attribute names of lines 89, 108 and 111.
ENVCONFIG == <<"e", "n", "v", "c", "o", "n", "f", "i", "g">>
REQUIRED == <<"r", "e", "q", "u", "i", "r", "e", "d">>
DEFAULT == <<"d", "e", "f", "a", "u", "l", "t">>
TRUE_LIT == <<"t", "r", "u", "e">>
FALSE_LIT == <<"f", "a", "l", "s", "e">>

EmptyMap == <<>>

\* m[k] = v on a Go map.
Put(m, k, v) == [x \in DOMAIN m \cup {k} |-> IF x = k THEN v ELSE m[x]]

\* ----------------------------------------------------------- collectDecls

\* Mutant of StoreDecl: the first declaration of a name is kept.
StoreFirstDecl(decls, name, d) ==
  IF name \in DOMAIN decls THEN decls ELSE Put(decls, name, d)

\* Line 69: decls[typeSpec.Name.Name] = &decl{...}, the later write replacing
\* an earlier one of the same name.
StoreDecl(decls, name, d) == Put(decls, name, d)

\* Lines 63-74: the specs of one GenDecl, in order.
RECURSIVE collectSpecs(_, _, _)
collectSpecs(decls, genDecl, specs) ==
  IF specs = <<>> THEN decls
  ELSE LET spec == Head(specs)
           next == IF spec.kind = "TypeSpec" /\ spec.struct
                     THEN StoreDecl(decls, spec.Name,
                                    [Decl |-> [comments |-> genDecl.comments],
                                     Fields |-> spec.Fields])
                     ELSE decls
       IN collectSpecs(next, genDecl, Tail(specs))

\* Lines 58-75: the declarations of one file, in order.
RECURSIVE collectFileDecls(_, _)
collectFileDecls(decls, ds) ==
  IF ds = <<>> THEN decls
  ELSE LET d == Head(ds)
           next == IF d.kind = "GenDecl" THEN collectSpecs(decls, d, d.Specs)
                                         ELSE decls
       IN collectFileDecls(next, Tail(ds))

RECURSIVE collectFiles(_, _)
collectFiles(decls, files) ==
  IF files = <<>> THEN decls
  ELSE collectFiles(collectFileDecls(decls, Head(files).Decls), Tail(files))

collectDecls(files) == collectFiles(EmptyMap, files)

\* ----------------------------------------------------- collectConfigTypes

\* Line 88: field.Tag.Value[1 : len(field.Tag.Value)-1] panics (slice bounds
\* out of range [1:0]) on a Value of one byte; line 84 has skipped the empty
\* Value.
SlicePanics(v) == Len(v) = 1

\* Line 88: field.Tag.Value[1 : len(field.Tag.Value)-1], when it does not
\* panic.
StripDelims(v) == SubSeq(v, 2, Len(v) - 1)

\* Mutant of Recognized: any non-empty tag counts, envconfig or not.
RecognizedAnyTag(field) == field.hasTag /\ field.Tag # <<>>

\* Lines 84-92: the field is not skipped: it has a tag, the tag's value is
\* not empty, and Lookup finds envconfig in the literal without its first
\* and last byte.
Recognized(field) ==
  /\ field.hasTag
  /\ field.Tag # <<>>
  /\ ~SlicePanics(field.Tag)
  /\ Lookup(StripDelims(field.Tag), ENVCONFIG).ok

\* Mutant of FieldPanics: the type assertion comes before the tag is read.
PanicsBeforeTagCheck(field) == field.Type.kind # "Ident"

\* The panics of a field: the slice expression of line 88 on a Value of one
\* byte, and field.Type.(*ast.Ident) of line 105 on any other expression,
\* which is reached only for a field lines 84-92 did not skip.
FieldPanics(field) ==
  \/ field.hasTag /\ field.Tag # <<>> /\ SlicePanics(field.Tag)
  \/ Recognized(field) /\ field.Type.kind # "Ident"

\* Mutant of NameOf: the field's identifier is the name.
NameFromIdent(field) == field.ident

\* Line 104: Name: key.
NameOf(field) == Lookup(StripDelims(field.Tag), ENVCONFIG).value

\* Mutant of RequiredOf: the presence of required decides.
RequiredIfPresent(tag) == Lookup(tag, REQUIRED).ok

\* Lines 108-110: Required stays false unless required is found, and is then
\* required == "true".
RequiredOf(tag) ==
  LET r == Lookup(tag, REQUIRED) IN IF r.ok THEN r.value = TRUE_LIT ELSE FALSE

\* Mutant of DefaultOf: the required attribute is read for the default.
DefaultFromRequired(tag) ==
  LET d == Lookup(tag, REQUIRED) IN IF d.ok THEN d.value ELSE <<>>

\* Lines 111-113: Default stays "" unless default is found.
DefaultOf(tag) ==
  LET d == Lookup(tag, DEFAULT) IN IF d.ok THEN d.value ELSE <<>>

\* Line 117: strings.ReplaceAll(f.Doc.Text(), "\n", ""): Text() ends every
\* line with a newline, and every newline is removed.
RECURSIVE DocText(_)
DocText(lines) ==
  IF lines = <<>> THEN <<>> ELSE Head(lines) \o <<"\n">> \o DocText(Tail(lines))

RemoveNewlines(text) == SelectSeq(text, LAMBDA piece : piece # "\n")

CommentOf(field) == RemoveNewlines(DocText(field.Doc))

\* Lines 103-118: the configKey of a field that was not skipped.
MakeKey(field) ==
  [Name     |-> NameOf(field),
   Type     |-> field.Type.Name,
   Required |-> RequiredOf(StripDelims(field.Tag)),
   Default  |-> DefaultOf(StripDelims(field.Tag)),
   Comment  |-> CommentOf(field)]

\* Mutant of AppendKey: the key is put in front.
PrependKey(keys, key) == <<key>> \o keys

\* Line 107: configs[name].Keys = append(configs[name].Keys, configKey).
AppendKey(keys, key) == Append(keys, key)

\* Lines 83-119: the fields of one declaration, in order.
RECURSIVE KeysOf(_)
KeysOf(fields) ==
  IF fields = <<>> THEN <<>>
  ELSE LET rest == KeysOf(SubSeq(fields, 1, Len(fields) - 1))
           last == fields[Len(fields)]
       IN IF Recognized(last) THEN AppendKey(rest, MakeKey(last)) ELSE rest

HasRecognized(fields) == \E k \in 1..Len(fields) : Recognized(fields[k])

\* Lines 93-102: an entry exists once a field was not skipped.
HasEntry(d) == HasRecognized(d.Fields)

\* Whether the loop of lines 82-120 panics: every declaration is visited,
\* whatever the order of the map's iteration, so one panicking field decides.
Panics(decls) ==
  \E name \in DOMAIN decls :
    \E k \in 1..Len(decls[name].Fields) : FieldPanics(decls[name].Fields[k])

\* Lines 80-122, when no field panics.  Each iteration writes configs[name]
\* only, so the order of the map's iteration does not show in the result.
collectConfigTypes(decls) ==
  [name \in {n \in DOMAIN decls : HasEntry(decls[n])} |->
     [Keys |-> KeysOf(decls[name].Fields),
      Comments |-> decls[name].Decl.comments]]

\* ------------------------------------------ collectConfigTypesFromPackages

\* Mutant of mapsCopy: an entry dst already has is kept.
mapsCopyKeepExisting(dst, src) ==
  [x \in DOMAIN dst \cup DOMAIN src |-> IF x \in DOMAIN dst THEN dst[x] ELSE src[x]]

\* Line 139: maps.Copy(dst, src): every entry of src is written to dst.
mapsCopy(dst, src) ==
  [x \in DOMAIN dst \cup DOMAIN src |-> IF x \in DOMAIN src THEN src[x] ELSE dst[x]]

\* ------------------------------------------------------------ writeMarkdown

\* A line of output: [kind, cells].
Line(kind, cells) == [kind |-> kind, cells |-> cells]

\* Mutant of EntryCompare: the arguments are swapped.
CompareDescending(a, b) == Compare(b, a)

\* The comparison of line 147.
EntryCompare(a, b) == Compare(a, b)

\* slices.SortedFunc over the keys in the order the map's iteration gave
\* them; the keys of a map are distinct, so the order of equal elements
\* does not arise.
RECURSIVE InsertSorted(_, _)
InsertSorted(sorted, k) ==
  IF sorted = <<>> THEN <<k>>
  ELSE IF EntryCompare(k, Head(sorted)) < 0 THEN <<k>> \o sorted
  ELSE <<Head(sorted)>> \o InsertSorted(Tail(sorted), k)

RECURSIVE SortKeys(_)
SortKeys(order) ==
  IF order = <<>> THEN <<>>
  ELSE InsertSorted(SortKeys(SubSeq(order, 1, Len(order) - 1)), order[Len(order)])

\* Mutant of SortedEntries: the entries are not sorted.
UnsortedEntries(order) == order

\* Lines 146-148.
SortedEntries(order) == SortKeys(order)

\* strconv's print tables (isPrint16 with isNotPrint16, isPrint32 with
\* isNotPrint32) for the runes above U+00FF, the exceptions taken out of the
\* ranges: the bounds lo, hi of each run of printable runes, in order.  The
\* tables are those of Unicode 15.0.0 (Go 1.21 to 1.25): the letters, marks,
\* numbers, punctuation and symbols.
PrintRanges ==
  <<
    256, 887, 890, 895, 900, 906, 908, 908, 910, 929, 931, 1327, 1329, 1366,
    1369, 1418, 1421, 1423, 1425, 1479, 1488, 1514, 1519, 1524, 1542, 1563,
    1565, 1756, 1758, 1805, 1808, 1866, 1869, 1969, 1984, 2042, 2045, 2093,
    2096, 2110, 2112, 2139, 2142, 2142, 2144, 2154, 2160, 2190, 2200, 2273,
    2275, 2435, 2437, 2444, 2447, 2448, 2451, 2472, 2474, 2480, 2482, 2482,
    2486, 2489, 2492, 2500, 2503, 2504, 2507, 2510, 2519, 2519, 2524, 2525,
    2527, 2531, 2534, 2558, 2561, 2563, 2565, 2570, 2575, 2576, 2579, 2600,
    2602, 2608, 2610, 2611, 2613, 2614, 2616, 2617, 2620, 2620, 2622, 2626,
    2631, 2632, 2635, 2637, 2641, 2641, 2649, 2652, 2654, 2654, 2662, 2678,
    2689, 2691, 2693, 2701, 2703, 2705, 2707, 2728, 2730, 2736, 2738, 2739,
    2741, 2745, 2748, 2757, 2759, 2761, 2763, 2765, 2768, 2768, 2784, 2787,
    2790, 2801, 2809, 2815, 2817, 2819, 2821, 2828, 2831, 2832, 2835, 2856,
    2858, 2864, 2866, 2867, 2869, 2873, 2876, 2884, 2887, 2888, 2891, 2893,
    2901, 2903, 2908, 2909, 2911, 2915, 2918, 2935, 2946, 2947, 2949, 2954,
    2958, 2960, 2962, 2965, 2969, 2970, 2972, 2972, 2974, 2975, 2979, 2980,
    2984, 2986, 2990, 3001, 3006, 3010, 3014, 3016, 3018, 3021, 3024, 3024,
    3031, 3031, 3046, 3066, 3072, 3084, 3086, 3088, 3090, 3112, 3114, 3129,
    3132, 3140, 3142, 3144, 3146, 3149, 3157, 3158, 3160, 3162, 3165, 3165,
    3168, 3171, 3174, 3183, 3191, 3212, 3214, 3216, 3218, 3240, 3242, 3251,
    3253, 3257, 3260, 3268, 3270, 3272, 3274, 3277, 3285, 3286, 3293, 3294,
    3296, 3299, 3302, 3311, 3313, 3315, 3328, 3340, 3342, 3344, 3346, 3396,
    3398, 3400, 3402, 3407, 3412, 3427, 3430, 3455, 3457, 3459, 3461, 3478,
    3482, 3505, 3507, 3515, 3517, 3517, 3520, 3526, 3530, 3530, 3535, 3540,
    3542, 3542, 3544, 3551, 3558, 3567, 3570, 3572, 3585, 3642, 3647, 3675,
    3713, 3714, 3716, 3716, 3718, 3722, 3724, 3747, 3749, 3749, 3751, 3773,
    3776, 3780, 3782, 3782, 3784, 3790, 3792, 3801, 3804, 3807, 3840, 3911,
    3913, 3948, 3953, 3991, 3993, 4028, 4030, 4044, 4046, 4058, 4096, 4293,
    4295, 4295, 4301, 4301, 4304, 4680, 4682, 4685, 4688, 4694, 4696, 4696,
    4698, 4701, 4704, 4744, 4746, 4749, 4752, 4784, 4786, 4789, 4792, 4798,
    4800, 4800, 4802, 4805, 4808, 4822, 4824, 4880, 4882, 4885, 4888, 4954,
    4957, 4988, 4992, 5017, 5024, 5109, 5112, 5117, 5120, 5759, 5761, 5788,
    5792, 5880, 5888, 5909, 5919, 5942, 5952, 5971, 5984, 5996, 5998, 6000,
    6002, 6003, 6016, 6109, 6112, 6121, 6128, 6137, 6144, 6157, 6159, 6169,
    6176, 6264, 6272, 6314, 6320, 6389, 6400, 6430, 6432, 6443, 6448, 6459,
    6464, 6464, 6468, 6509, 6512, 6516, 6528, 6571, 6576, 6601, 6608, 6618,
    6622, 6683, 6686, 6750, 6752, 6780, 6783, 6793, 6800, 6809, 6816, 6829,
    6832, 6862, 6912, 6988, 6992, 7038, 7040, 7155, 7164, 7223, 7227, 7241,
    7245, 7304, 7312, 7354, 7357, 7367, 7376, 7418, 7424, 7957, 7960, 7965,
    7968, 8005, 8008, 8013, 8016, 8023, 8025, 8025, 8027, 8027, 8029, 8029,
    8031, 8061, 8064, 8116, 8118, 8132, 8134, 8147, 8150, 8155, 8157, 8175,
    8178, 8180, 8182, 8190, 8208, 8231, 8240, 8286, 8304, 8305, 8308, 8334,
    8336, 8348, 8352, 8384, 8400, 8432, 8448, 8587, 8592, 9254, 9280, 9290,
    9312, 11123, 11126, 11157, 11159, 11507, 11513, 11557, 11559, 11559,
    11565, 11565, 11568, 11623, 11631, 11632, 11647, 11670, 11680, 11686,
    11688, 11694, 11696, 11702, 11704, 11710, 11712, 11718, 11720, 11726,
    11728, 11734, 11736, 11742, 11744, 11869, 11904, 11929, 11931, 12019,
    12032, 12245, 12272, 12283, 12289, 12351, 12353, 12438, 12441, 12543,
    12549, 12591, 12593, 12686, 12688, 12771, 12784, 12830, 12832, 42124,
    42128, 42182, 42192, 42539, 42560, 42743, 42752, 42954, 42960, 42961,
    42963, 42963, 42965, 42969, 42994, 43052, 43056, 43065, 43072, 43127,
    43136, 43205, 43214, 43225, 43232, 43347, 43359, 43388, 43392, 43469,
    43471, 43481, 43486, 43518, 43520, 43574, 43584, 43597, 43600, 43609,
    43612, 43714, 43739, 43766, 43777, 43782, 43785, 43790, 43793, 43798,
    43808, 43814, 43816, 43822, 43824, 43883, 43888, 44013, 44016, 44025,
    44032, 55203, 55216, 55238, 55243, 55291, 63744, 64109, 64112, 64217,
    64256, 64262, 64275, 64279, 64285, 64310, 64312, 64316, 64318, 64318,
    64320, 64321, 64323, 64324, 64326, 64450, 64467, 64911, 64914, 64967,
    64975, 64975, 65008, 65049, 65056, 65106, 65108, 65126, 65128, 65131,
    65136, 65140, 65142, 65276, 65281, 65470, 65474, 65479, 65482, 65487,
    65490, 65495, 65498, 65500, 65504, 65510, 65512, 65518, 65532, 65533,
    65536, 65547, 65549, 65574, 65576, 65594, 65596, 65597, 65599, 65613,
    65616, 65629, 65664, 65786, 65792, 65794, 65799, 65843, 65847, 65934,
    65936, 65948, 65952, 65952, 66000, 66045, 66176, 66204, 66208, 66256,
    66272, 66299, 66304, 66339, 66349, 66378, 66384, 66426, 66432, 66461,
    66463, 66499, 66504, 66517, 66560, 66717, 66720, 66729, 66736, 66771,
    66776, 66811, 66816, 66855, 66864, 66915, 66927, 66938, 66940, 66954,
    66956, 66962, 66964, 66965, 66967, 66977, 66979, 66993, 66995, 67001,
    67003, 67004, 67072, 67382, 67392, 67413, 67424, 67431, 67456, 67461,
    67463, 67504, 67506, 67514, 67584, 67589, 67592, 67592, 67594, 67637,
    67639, 67640, 67644, 67644, 67647, 67669, 67671, 67742, 67751, 67759,
    67808, 67826, 67828, 67829, 67835, 67867, 67871, 67897, 67903, 67903,
    67968, 68023, 68028, 68047, 68050, 68099, 68101, 68102, 68108, 68115,
    68117, 68119, 68121, 68149, 68152, 68154, 68159, 68168, 68176, 68184,
    68192, 68255, 68288, 68326, 68331, 68342, 68352, 68405, 68409, 68437,
    68440, 68466, 68472, 68497, 68505, 68508, 68521, 68527, 68608, 68680,
    68736, 68786, 68800, 68850, 68858, 68903, 68912, 68921, 69216, 69246,
    69248, 69289, 69291, 69293, 69296, 69297, 69373, 69415, 69424, 69465,
    69488, 69513, 69552, 69579, 69600, 69622, 69632, 69709, 69714, 69749,
    69759, 69820, 69822, 69826, 69840, 69864, 69872, 69881, 69888, 69940,
    69942, 69959, 69968, 70006, 70016, 70111, 70113, 70132, 70144, 70161,
    70163, 70209, 70272, 70278, 70280, 70280, 70282, 70285, 70287, 70301,
    70303, 70313, 70320, 70378, 70384, 70393, 70400, 70403, 70405, 70412,
    70415, 70416, 70419, 70440, 70442, 70448, 70450, 70451, 70453, 70457,
    70459, 70468, 70471, 70472, 70475, 70477, 70480, 70480, 70487, 70487,
    70493, 70499, 70502, 70508, 70512, 70516, 70656, 70747, 70749, 70753,
    70784, 70855, 70864, 70873, 71040, 71093, 71096, 71133, 71168, 71236,
    71248, 71257, 71264, 71276, 71296, 71353, 71360, 71369, 71424, 71450,
    71453, 71467, 71472, 71494, 71680, 71739, 71840, 71922, 71935, 71942,
    71945, 71945, 71948, 71955, 71957, 71958, 71960, 71989, 71991, 71992,
    71995, 72006, 72016, 72025, 72096, 72103, 72106, 72151, 72154, 72164,
    72192, 72263, 72272, 72354, 72368, 72440, 72448, 72457, 72704, 72712,
    72714, 72758, 72760, 72773, 72784, 72812, 72816, 72847, 72850, 72871,
    72873, 72886, 72960, 72966, 72968, 72969, 72971, 73014, 73018, 73018,
    73020, 73021, 73023, 73031, 73040, 73049, 73056, 73061, 73063, 73064,
    73066, 73102, 73104, 73105, 73107, 73112, 73120, 73129, 73440, 73464,
    73472, 73488, 73490, 73530, 73534, 73561, 73648, 73648, 73664, 73713,
    73727, 74649, 74752, 74862, 74864, 74868, 74880, 75075, 77712, 77810,
    77824, 78895, 78912, 78933, 82944, 83526, 92160, 92728, 92736, 92766,
    92768, 92777, 92782, 92862, 92864, 92873, 92880, 92909, 92912, 92917,
    92928, 92997, 93008, 93017, 93019, 93025, 93027, 93047, 93053, 93071,
    93760, 93850, 93952, 94026, 94031, 94087, 94095, 94111, 94176, 94180,
    94192, 94193, 94208, 100343, 100352, 101589, 101632, 101640, 110576,
    110579, 110581, 110587, 110589, 110590, 110592, 110882, 110898, 110898,
    110928, 110930, 110933, 110933, 110948, 110951, 110960, 111355, 113664,
    113770, 113776, 113788, 113792, 113800, 113808, 113817, 113820, 113823,
    118528, 118573, 118576, 118598, 118608, 118723, 118784, 119029, 119040,
    119078, 119081, 119154, 119163, 119274, 119296, 119365, 119488, 119507,
    119520, 119539, 119552, 119638, 119648, 119672, 119808, 119892, 119894,
    119964, 119966, 119967, 119970, 119970, 119973, 119974, 119977, 119980,
    119982, 119993, 119995, 119995, 119997, 120003, 120005, 120069, 120071,
    120074, 120077, 120084, 120086, 120092, 120094, 120121, 120123, 120126,
    120128, 120132, 120134, 120134, 120138, 120144, 120146, 120485, 120488,
    120779, 120782, 121483, 121499, 121503, 121505, 121519, 122624, 122654,
    122661, 122666, 122880, 122886, 122888, 122904, 122907, 122913, 122915,
    122916, 122918, 122922, 122928, 122989, 123023, 123023, 123136, 123180,
    123184, 123197, 123200, 123209, 123214, 123215, 123536, 123566, 123584,
    123641, 123647, 123647, 124112, 124153, 124896, 124902, 124904, 124907,
    124909, 124910, 124912, 124926, 124928, 125124, 125127, 125142, 125184,
    125259, 125264, 125273, 125278, 125279, 126065, 126132, 126209, 126269,
    126464, 126467, 126469, 126495, 126497, 126498, 126500, 126500, 126503,
    126503, 126505, 126514, 126516, 126519, 126521, 126521, 126523, 126523,
    126530, 126530, 126535, 126535, 126537, 126537, 126539, 126539, 126541,
    126543, 126545, 126546, 126548, 126548, 126551, 126551, 126553, 126553,
    126555, 126555, 126557, 126557, 126559, 126559, 126561, 126562, 126564,
    126564, 126567, 126570, 126572, 126578, 126580, 126583, 126585, 126588,
    126590, 126590, 126592, 126601, 126603, 126619, 126625, 126627, 126629,
    126633, 126635, 126651, 126704, 126705, 126976, 127019, 127024, 127123,
    127136, 127150, 127153, 127167, 127169, 127183, 127185, 127221, 127232,
    127405, 127462, 127490, 127504, 127547, 127552, 127560, 127568, 127569,
    127584, 127589, 127744, 128727, 128732, 128748, 128752, 128764, 128768,
    128886, 128891, 128985, 128992, 129003, 129008, 129008, 129024, 129035,
    129040, 129095, 129104, 129113, 129120, 129159, 129168, 129197, 129200,
    129201, 129280, 129619, 129632, 129645, 129648, 129660, 129664, 129672,
    129680, 129725, 129727, 129733, 129742, 129755, 129760, 129768, 129776,
    129784, 129792, 129938, 129940, 129994, 130032, 130041, 131072, 173791,
    173824, 177977, 177984, 178205, 178208, 183969, 183984, 191456, 194560,
    195101, 196608, 201546, 201552, 205743, 917760, 917999
  >>

\* strconv.IsPrint: the Latin-1 runes by comparison, the others by the tables.
IsPrint(r) ==
  IF r <= 255
    THEN \/ 32 <= r /\ r < 127
         \/ 161 <= r /\ r # 173
    ELSE \E i \in 1..(Len(PrintRanges) \div 2) :
           PrintRanges[2 * i - 1] <= r /\ r <= PrintRanges[2 * i]

\* "0123456789abcdef"[n].
HexDigit(n) == Chr(IF n < 10 THEN 48 + n ELSE 87 + n)

\* The n hexadecimal digits of v, the most significant first.
RECURSIVE HexDigits(_, _)
HexDigits(v, n) ==
  IF n = 0 THEN <<>> ELSE HexDigits(v \div 16, n - 1) \o <<HexDigit(v % 16)>>

\* strconv's appendEscapedRune(buf, r, '"', false, false).
EscapedRune(r) ==
  IF r = 34 \/ r = 92 THEN <<"\\", Chr(r)>>
  ELSE IF IsPrint(r) THEN EncodeRune(r)
  ELSE CASE r = 7 -> <<"\\", "a">>
         [] r = 8 -> <<"\\", "b">>
         [] r = 12 -> <<"\\", "f">>
         [] r = 10 -> <<"\\", "n">>
         [] r = 13 -> <<"\\", "r">>
         [] r = 9 -> <<"\\", "t">>
         [] r = 11 -> <<"\\", "v">>
         [] OTHER ->
              IF r < 32 \/ r = 127 THEN <<"\\", "x">> \o HexDigits(r % 256, 2)
              ELSE IF ~ValidRune(r) \/ r < 65536
                THEN <<"\\", "u">> \o HexDigits(IF ValidRune(r) THEN r ELSE 65533, 4)
              ELSE <<"\\", "U">> \o HexDigits(r, 8)

\* strconv.Quote, which %q applies (line 177): rune by rune, a byte that is
\* no valid UTF-8 written as \xhh.
RECURSIVE QuoteBody(_)
QuoteBody(s) ==
  IF s = <<>> THEN <<>>
  ELSE LET d == IF Ord(Head(s)) >= 128 THEN DecodeRune(s)
                                       ELSE [rune |-> Ord(Head(s)), size |-> 1]
       IN (IF d.size = 1 /\ d.rune = 65533
             THEN <<"\\", "x">> \o HexDigits(Ord(Head(s)), 2)
             ELSE EscapedRune(d.rune))
          \o QuoteBody(From(s, d.size + 1))

Quote(s) == <<"\"">> \o QuoteBody(s) \o <<"\"">>

\* Lines 174-185: one row of the table.
Row(key) ==
  Line("row", << key.Name,
                 key.Type,
                 IF key.Required THEN TRUE_LIT ELSE FALSE_LIT,
                 IF key.Default # <<>> THEN Quote(key.Default) ELSE <<>>,
                 key.Comment >>)

RECURSIVE Rows(_)
Rows(keys) == IF keys = <<>> THEN <<>> ELSE <<Row(Head(keys))>> \o Rows(Tail(keys))

\* Lines 157-163: strings.Split(c.Text(), "\n") of each group: its lines and
\* the empty string after the last newline.
RECURSIVE TextLines(_)
TextLines(lines) ==
  IF lines = <<>> THEN <<Line("text", <<>>)>>
  ELSE <<Line("text", <<Head(lines)>>)>> \o TextLines(Tail(lines))

RECURSIVE CommentLines(_)
CommentLines(groups) ==
  IF groups = <<>> THEN <<>>
  ELSE TextLines(Head(groups)) \o CommentLines(Tail(groups))

\* Lines 151-195: the section of one entry.
Section(name, config) ==
  <<Line("h2", <<name>>), Line("blank", <<>>)>>
  \o CommentLines(config.Comments)
  \o <<Line("header", << <<"Name">>, <<"Type">>, <<"Required">>, <<"Default">>,
                           <<"Comment">> >>)>>
  \o Rows(config.Keys)
  \o <<Line("blank", <<>>)>>

RECURSIVE Sections(_, _)
Sections(names, cfgs) ==
  IF names = <<>> THEN <<>>
  ELSE Section(Head(names), cfgs[Head(names)]) \o Sections(Tail(names), cfgs)

\* Lines 145-198, the map's iteration having given the keys in `order`.
writeMarkdown(order, cfgs) == Sections(SortedEntries(order), cfgs)

\* The orders in which a map's iteration can give the keys.
Orders(S) ==
  {o \in [1..Cardinality(S) -> S] : \A a, b \in DOMAIN o : a # b => o[a] # o[b]}

\* ---------------------------------------------------------------- inputs

\* The most fields of the struct whose tags are varied.
MaxTagFields == 1
\* The most declarations laid out over specs, declarations, files, packages.
MaxDecls == 2
\* The most struct types of the inputs whose type names are varied.
MaxTypes == 3

K1 == <<"K", "1">>
K2 == <<"K", "2">>
SP == <<" ">>

\* key:"value", as main_test.go writes the attributes of a tag.
Attr(key, value) == key \o <<":", "\"">> \o value \o <<"\"">>

\* A raw string literal, as Tag.Value holds it.
RawLit(body) == <<BQ>> \o body \o <<BQ>>

\* An interpreted string literal of a body with no byte but the double quote
\* to escape, as Tag.Value holds it.
RECURSIVE EscapeQuotes(_)
EscapeQuotes(s) ==
  IF s = <<>> THEN <<>>
  ELSE (IF Head(s) = "\"" THEN <<"\\", "\"">> ELSE <<Head(s)>>) \o EscapeQuotes(Tail(s))

InterpretedLit(body) == <<"\"">> \o EscapeQuotes(body) \o <<"\"">>

NoTag == [hasTag |-> FALSE, Tag |-> <<>>]
TagLit(lit) == [hasTag |-> TRUE, Tag |-> lit]

\* The tags: nil, an empty Value, and literals.
TagPool ==
  { NoTag,
    TagLit(<<>>),
    TagLit(RawLit(<<>>)),
    TagLit(RawLit(Attr(ENVCONFIG, K1))),
    TagLit(RawLit(Attr(ENVCONFIG, <<>>))),
    TagLit(RawLit(Attr(ENVCONFIG, K2) \o SP \o Attr(REQUIRED, TRUE_LIT) \o SP
                  \o Attr(DEFAULT, <<"v">>))),
    TagLit(RawLit(Attr(ENVCONFIG, K1) \o SP \o Attr(REQUIRED, FALSE_LIT))),
    TagLit(RawLit(Attr(ENVCONFIG, K1) \o SP \o Attr(REQUIRED, <<"1">>))),
    TagLit(RawLit(Attr(ENVCONFIG, K1) \o SP \o Attr(REQUIRED, <<"T", "R", "U", "E">>))),
    TagLit(RawLit(Attr(ENVCONFIG, K1) \o SP \o Attr(REQUIRED, <<>>))),
    TagLit(RawLit(Attr(REQUIRED, TRUE_LIT) \o SP \o Attr(ENVCONFIG, K2))),
    TagLit(RawLit(Attr(ENVCONFIG, K1) \o SP \o Attr(DEFAULT, <<>>))),
    TagLit(RawLit(Attr(ENVCONFIG, K1) \o SP
                  \o Attr(DEFAULT, <<"a", " ", "\\", "\"", "b", "\\", "t">>))),
    TagLit(RawLit(Attr(<<"j", "s", "o", "n">>, <<"f">>))),
    TagLit(RawLit(Attr(REQUIRED, TRUE_LIT) \o SP \o Attr(DEFAULT, <<"v">>))),
    TagLit(RawLit(<<"j", "s", "o", "n", ":", "f", " ">> \o Attr(ENVCONFIG, K1))),
    TagLit(RawLit(Attr(ENVCONFIG, K1) \o SP \o Attr(REQUIRED, FALSE_LIT) \o SP
                  \o Attr(REQUIRED, TRUE_LIT))),
    TagLit(InterpretedLit(Attr(ENVCONFIG, K1))),
    TagLit(RawLit(Attr(ENVCONFIG, <<"\\", "x", "4", "b", "\\", "0", "6", "1">>) \o SP
                  \o Attr(REQUIRED, <<"\\", "x", "7", "4", "r", "u", "e">>) \o SP
                  \o Attr(DEFAULT, <<"\\", "a", "\\", "u", "0", "0", "e", "9", "\\", "x", "f", "f",
                                     "\\", "u", "2", "0", "0", "b",
                                     "\\", "u", "3", "0", "4", "2",
                                     "\\", "U", "0", "0", "0", "e", "0", "0", "0", "1">>))),
    TagLit(RawLit(Attr(ENVCONFIG, K1) \o SP
                  \o Attr(DEFAULT, <<"\\", "U", "0", "0", "1", "1", "0", "0", "0", "0">>))),
    TagLit(RawLit(Attr(ENVCONFIG, <<"\\", "4", "0", "0">>))) }

IdentType(name) == [kind |-> "Ident", Name |-> <<name>>]
StarType == [kind |-> "StarExpr", Name |-> <<>>]
SelectorType == [kind |-> "SelectorExpr", Name |-> <<>>]

TypePool == {IdentType("string"), IdentType("int"), StarType}

MakeField(ident, type, tag, doc) ==
  [ident |-> ident, Type |-> type, hasTag |-> tag.hasTag, Tag |-> tag.Tag, Doc |-> doc]

StructSpec(name, fields) ==
  [kind |-> "TypeSpec", Name |-> name, struct |-> TRUE, Fields |-> fields]
OtherTypeSpec(name) ==
  [kind |-> "TypeSpec", Name |-> name, struct |-> FALSE, Fields |-> <<>>]
ValueSpec == [kind |-> "ValueSpec", Name |-> <<"v">>, struct |-> FALSE, Fields |-> <<>>]

GenDecl(comments, specs) == [kind |-> "GenDecl", comments |-> comments, Specs |-> specs]
FuncDecl == [kind |-> "FuncDecl", comments |-> <<>>, Specs |-> <<>>]

File(decls) == [Decls |-> decls]
Package(files) == [Syntax |-> files]

\* Sequences over S of length lo..hi.
SeqsOf(S, lo, hi) == UNION {[1..n -> S] : n \in lo..hi}

\* One package of one file declaring struct A, its fields' tags and types
\* varied.
TagFields == {MakeField(<<"F">>, ty, tg, <<>>) : ty \in TypePool, tg \in TagPool}

TagInputs ==
  { <<Package(<<File(<<GenDecl(<<>>, <<StructSpec(<<"A">>, fs)>>)>>)>>)>> :
      fs \in SeqsOf(TagFields, 1, MaxTagFields) }

\* The struct bodies of the laid-out declarations.
FieldUntagged == MakeField(<<"U">>, StarType, NoTag, <<>>)
FieldK1 == MakeField(<<"F">>, IdentType("string"), TagLit(RawLit(Attr(ENVCONFIG, K1))), <<>>)
FieldK2 ==
  MakeField(<<"G">>, IdentType("int"),
            TagLit(RawLit(Attr(ENVCONFIG, K2) \o SP \o Attr(REQUIRED, TRUE_LIT))),
            << <<"first line">>, <<"second line">> >>)
FieldBad ==
  MakeField(<<"P">>, SelectorType, TagLit(RawLit(Attr(ENVCONFIG, K1))), <<>>)

BodyPool ==
  { <<FieldUntagged>>, <<FieldK1>>, <<FieldK2, FieldUntagged, FieldK1>>, <<FieldBad>> }

\* An item of a layout: a spec or a function declaration, with the boundary
\* it starts (a spec of the open GenDecl, a new declaration, file or package)
\* and the comment groups its GenDecl has when it starts one.
ItemPool ==
  {[kind |-> "spec", spec |-> StructSpec(n, b),
    comments |-> IF Len(b) > 1 THEN << << <<"about ">> \o n >> >> ELSE <<>>] :
      n \in {<<"A">>, <<"B">>}, b \in BodyPool}
  \cup {[kind |-> "spec", spec |-> OtherTypeSpec(<<"A">>), comments |-> <<>>],
        [kind |-> "spec", spec |-> ValueSpec, comments |-> <<>>],
        [kind |-> "func", spec |-> ValueSpec, comments |-> <<>>]}

Boundaries == {"spec", "decl", "file", "pkg"}

DeclOf(item) ==
  IF item.kind = "func" THEN FuncDecl ELSE GenDecl(item.comments, <<item.spec>>)

ReplaceLast(seq, x) == [seq EXCEPT ![Len(seq)] = x]
Last(seq) == seq[Len(seq)]

\* The packages a layout stands for.
RECURSIVE Build(_, _)
Build(ps, items) ==
  IF items = <<>> THEN ps
  ELSE
    LET it == Head(items).item
        b  == IF ps = <<>> THEN "pkg" ELSE Head(items).boundary
        next ==
          IF b = "pkg" THEN Append(ps, Package(<<File(<<DeclOf(it)>>)>>))
          ELSE LET p == Last(ps) IN
            IF b = "file"
              THEN ReplaceLast(ps, Package(Append(p.Syntax, File(<<DeclOf(it)>>))))
            ELSE LET f == Last(p.Syntax)
                     d == Last(f.Decls)
                     newDecls ==
                       IF b = "spec" /\ it.kind = "spec" /\ d.kind = "GenDecl"
                         THEN ReplaceLast(f.Decls, GenDecl(d.comments, Append(d.Specs, it.spec)))
                         ELSE Append(f.Decls, DeclOf(it))
                 IN ReplaceLast(ps, Package(ReplaceLast(p.Syntax, File(newDecls))))
    IN Build(next, Tail(items))

LayoutInputs ==
  { Build(<<>>, items) :
      items \in SeqsOf([item : ItemPool, boundary : Boundaries], 1, MaxDecls) }

\* One package of one file declaring structs of distinct names, in any order.
SortNames == {<<"A">>, <<"A", "B">>, <<"B">>, <<"a">>}

SortInputs ==
  { <<Package(<<File([k \in DOMAIN names |->
                        GenDecl(<<>>, <<StructSpec(names[k], <<FieldK1>>)>>)])>>)>> :
      names \in {o \in SeqsOf(SortNames, 1, MaxTypes) :
                   \A a, b \in DOMAIN o : a # b => o[a] # o[b]} }

Inputs == TagInputs \cup LayoutInputs \cup SortInputs

\* ----------------------------------------------------------------- state

Sinks == {1, 2}
NotWritten == [written |-> FALSE, lines |-> <<>>]

VARIABLES
  pkgs,         \* the argument of collectConfigTypesFromPackages
  pc,           \* "collect" (in the loop of line 134), "collected" (returned),
                \* "panic" (the run-time panic of line 105, not recovered)
  idx,          \* the package the loop of line 134 is at
  configs,      \* configs of line 132
  configInPkg,  \* configInPkg of line 138, of the last package done
  out           \* what writeMarkdown wrote to each sink

vars == <<pkgs, pc, idx, configs, configInPkg, out>>

Init ==
  /\ pkgs \in Inputs
  /\ pc = "collect"
  /\ idx = 1
  /\ configs = EmptyMap
  /\ configInPkg = EmptyMap
  /\ out = [s \in Sinks |-> NotWritten]

\* Lines 134-140: one iteration of the loop.
CollectPackage ==
  /\ pc = "collect"
  /\ idx <= Len(pkgs)
  /\ LET decls == collectDecls(pkgs[idx].Syntax) IN
       \/ /\ Panics(decls)
          /\ pc' = "panic"
          /\ UNCHANGED <<idx, configs, configInPkg>>
       \/ /\ ~Panics(decls)
          /\ configInPkg' = collectConfigTypes(decls)
          /\ configs' = mapsCopy(configs, configInPkg')
          /\ idx' = idx + 1
          /\ pc' = pc
  /\ UNCHANGED <<pkgs, out>>

\* Line 142: return configs.
CollectReturn ==
  /\ pc = "collect"
  /\ idx > Len(pkgs)
  /\ pc' = "collected"
  /\ UNCHANGED <<pkgs, idx, configs, configInPkg, out>>

\* Lines 145-198: writeMarkdown(w, configs) on a fresh sink, the map's
\* iteration giving the entries in any order.
WriteMarkdown(s) ==
  /\ pc = "collected"
  /\ ~out[s].written
  /\ \E order \in Orders(DOMAIN configs) :
       out' = [out EXCEPT ![s] = [written |-> TRUE,
                                  lines |-> writeMarkdown(order, configs)]]
  /\ UNCHANGED <<pkgs, pc, idx, configs, configInPkg>>

Next ==
  \/ CollectPackage
  \/ CollectReturn
  \/ \E s \in Sinks : WriteMarkdown(s)

Spec == Init /\ [][Next]_vars

\* ------------------------------------------------------- the claims' terms

\* The text of a field's tag between the literal's delimiters.
TagText(field) ==
  IF field.hasTag /\ Len(field.Tag) >= 2
    THEN SubSeq(field.Tag, 2, Len(field.Tag) - 1)
    ELSE <<>>

\* The field's tag has attribute `key`; the attribute's value.
HasAttr(field, key) == Lookup(TagText(field), key).ok
AttrValue(field, key) == Lookup(TagText(field), key).value

\* The fields that carry the envconfig attribute, in declaration order.
TaggedFields(fields) == SelectSeq(fields, LAMBDA f : HasAttr(f, ENVCONFIG))

\* The struct type specifications of a package, in file order.
RECURSIVE Flatten(_)
Flatten(seqs) == IF seqs = <<>> THEN <<>> ELSE Head(seqs) \o Flatten(Tail(seqs))

StructsOfDecl(d) ==
  IF d.kind = "GenDecl"
    THEN SelectSeq(d.Specs, LAMBDA sp : sp.kind = "TypeSpec" /\ sp.struct)
    ELSE <<>>

StructsOfFile(f) == Flatten([k \in DOMAIN f.Decls |-> StructsOfDecl(f.Decls[k])])

StructsOf(pkg) == Flatten([k \in DOMAIN pkg.Syntax |-> StructsOfFile(pkg.Syntax[k])])

AllStructs == Flatten([k \in DOMAIN pkgs |-> StructsOf(pkgs[k])])

\* How many struct declarations of that name a sequence of structs holds.
Count(structs, name) == Cardinality({k \in DOMAIN structs : structs[k].Name = name})

\* The last struct declaration of that name.
LastStruct(structs, name) ==
  structs[CHOOSE k \in DOMAIN structs :
            /\ structs[k].Name = name
            /\ \A j \in DOMAIN structs : structs[j].Name = name => j <= k]

StructNames(structs) == {structs[k].Name : k \in DOMAIN structs}

\* The (key, field) pairs of the result: for a struct whose name is declared
\* once in the whole input, the i-th key with the i-th envconfig-tagged field.
KeyFieldPairs ==
  UNION { LET st == LastStruct(AllStructs, n)
              tf == TaggedFields(st.Fields)
              ks == configs[n].Keys
          IN {<<ks[i], tf[i]>> : i \in DOMAIN ks \cap DOMAIN tf} :
          n \in {m \in DOMAIN configs : Count(AllStructs, m) = 1} }

\* --------------------------------------------------------------- claims

\* C1: a type name is a key of the result only if some struct declaration of
\* that name has a field whose tag carries envconfig; when no field of any
\* struct carries it, the returned map is empty.
C1_OnlyTaggedStructs ==
  /\ \A n \in DOMAIN configs :
       \E k \in DOMAIN AllStructs :
         /\ AllStructs[k].Name = n
         /\ TaggedFields(AllStructs[k].Fields) # <<>>
  /\ (pc = "collected"
      /\ \A k \in DOMAIN AllStructs : TaggedFields(AllStructs[k].Fields) = <<>>)
     => configs = EmptyMap

\* A struct with a field tagged required but not envconfig was collected and
\* the result is empty.
C1_Witness ==
  /\ pc = "collected"
  /\ configs = EmptyMap
  /\ \E k \in DOMAIN AllStructs :
       \E j \in DOMAIN AllStructs[k].Fields :
         /\ HasAttr(AllStructs[k].Fields[j], REQUIRED)
         /\ ~HasAttr(AllStructs[k].Fields[j], ENVCONFIG)

\* The result's entry for a struct is built from its tagged fields, in order.
KeysMatch(keys, fields) ==
  LET tf == TaggedFields(fields) IN
  /\ Len(keys) = Len(tf)
  /\ \A i \in DOMAIN keys :
       /\ keys[i].Name = AttrValue(tf[i], ENVCONFIG)
       /\ keys[i].Type = tf[i].Type.Name
       /\ keys[i].Comment = RemoveNewlines(DocText(tf[i].Doc))

\* The k-th struct declaration of package p is replaced: the package declares
\* its name again later, or a later package's last declaration of the name has
\* an envconfig-tagged field.
Replaced(p, k) ==
  LET structs == StructsOf(pkgs[p])
      n == structs[k].Name
  IN \/ \E j \in DOMAIN structs : j > k /\ structs[j].Name = n
     \/ \E q \in DOMAIN pkgs :
          /\ q > p
          /\ n \in StructNames(StructsOf(pkgs[q]))
          /\ TaggedFields(LastStruct(StructsOf(pkgs[q]), n).Fields) # <<>>

\* C2 as stated: for every struct declaration with an envconfig-tagged field,
\* the result has an entry for the type whose Keys are the struct's
\* envconfig-tagged fields, one key each, in declaration order; untagged
\* fields contribute no key.
C2_KeysAreTaggedFieldsInOrder ==
  pc = "collected" =>
    \A k \in DOMAIN AllStructs :
      LET st == AllStructs[k] IN
      TaggedFields(st.Fields) # <<>> =>
        /\ st.Name \in DOMAIN configs
        /\ KeysMatch(configs[st.Name].Keys, st.Fields)

\* C2 amended: for every struct declaration with an envconfig-tagged field
\* that no later declaration replaces, the result has an entry for the type
\* whose Keys are the struct's envconfig-tagged fields, one key each, in
\* declaration order; untagged fields contribute no key.
C2_UnreplacedDeclarationKeysInOrder ==
  pc = "collected" =>
    \A p \in DOMAIN pkgs :
      \A k \in DOMAIN StructsOf(pkgs[p]) :
        LET st == StructsOf(pkgs[p])[k] IN
        (TaggedFields(st.Fields) # <<>> /\ ~Replaced(p, k)) =>
          /\ st.Name \in DOMAIN configs
          /\ KeysMatch(configs[st.Name].Keys, st.Fields)

\* A struct of three fields, the second untagged, replaced an earlier
\* declaration of its name that has one tagged field, and gave two keys whose
\* names are not in sorted order.
C2_Witness ==
  /\ pc = "collected"
  /\ \E p \in DOMAIN pkgs :
       \E k \in DOMAIN StructsOf(pkgs[p]) :
         LET st == StructsOf(pkgs[p])[k] IN
         /\ ~Replaced(p, k)
         /\ Len(st.Fields) > Len(TaggedFields(st.Fields))
         /\ \E j \in DOMAIN AllStructs :
              /\ AllStructs[j].Name = st.Name
              /\ Len(TaggedFields(AllStructs[j].Fields)) = 1
         /\ st.Name \in DOMAIN configs
         /\ Len(configs[st.Name].Keys) = 2
         /\ Compare(configs[st.Name].Keys[1].Name, configs[st.Name].Keys[2].Name) > 0

\* The config map of package k alone.
PerPackage(k) == collectConfigTypes(collectDecls(pkgs[k].Syntax))

\* The packages whose own config map has an entry for the name.
PackagesWith(n) == {k \in DOMAIN pkgs : n \in DOMAIN PerPackage(k)}

Max(S) == CHOOSE x \in S : \A y \in S : y <= x

\* C3: the returned map's names are the union of the per-package maps' names,
\* and the entry of a name is the entry of the last package that has one for
\* it: its Keys and Comments, nothing of an earlier package's entry.
C3_MergeLaterPackageWins ==
  pc = "collected" =>
    /\ DOMAIN configs = UNION {DOMAIN PerPackage(k) : k \in DOMAIN pkgs}
    /\ \A n \in DOMAIN configs : configs[n] = PerPackage(Max(PackagesWith(n)))[n]

\* Two packages have different entries for one name and the result holds the
\* second package's.
C3_Witness ==
  /\ pc = "collected"
  /\ Len(pkgs) = 2
  /\ \E n \in DOMAIN configs :
       /\ PackagesWith(n) = {1, 2}
       /\ PerPackage(1)[n] # PerPackage(2)[n]
       /\ configs[n] = PerPackage(2)[n]

\* C4: ConfigKey.Required is true exactly when the field's tag has a required
\* attribute whose value is "true".
C4_RequiredIffTrueLiteral ==
  pc = "collected" =>
    \A kf \in KeyFieldPairs :
      kf[1].Required <=>
        (HasAttr(kf[2], REQUIRED) /\ AttrValue(kf[2], REQUIRED) = TRUE_LIT)

\* A key whose field has a required attribute of another value than "true",
\* and a key whose field has required:"true", in results that were returned.
C4_Witness ==
  /\ pc = "collected"
  /\ \E kf \in KeyFieldPairs :
       /\ HasAttr(kf[2], REQUIRED)
       /\ AttrValue(kf[2], REQUIRED) # TRUE_LIT
       /\ AttrValue(kf[2], REQUIRED) # <<>>
       /\ ~kf[1].Required

\* C5: ConfigKey.Default is the empty string when the tag has no default
\* attribute and the attribute's value when it has one.
C5_DefaultIsAttributeValue ==
  pc = "collected" =>
    \A kf \in KeyFieldPairs :
      kf[1].Default = IF HasAttr(kf[2], DEFAULT) THEN AttrValue(kf[2], DEFAULT) ELSE <<>>

\* A key whose field has a non-empty default and a required attribute.
C5_Witness ==
  /\ pc = "collected"
  /\ \E kf \in KeyFieldPairs :
       /\ HasAttr(kf[2], DEFAULT)
       /\ HasAttr(kf[2], REQUIRED)
       /\ kf[1].Default # <<>>

\* C6 as stated: every ConfigKey has a non-empty Name that is the value of
\* the field's envconfig attribute, an empty value included.
C6_NameNonEmptyAndFromTag ==
  pc = "collected" =>
    \A kf \in KeyFieldPairs :
      /\ kf[1].Name # <<>>
      /\ kf[1].Name = AttrValue(kf[2], ENVCONFIG)

\* C6 amended: every ConfigKey's Name is the value of the field's envconfig
\* attribute, never the field's identifier; it is empty exactly when that
\* value is the empty string.
C6_NameIsTagValue ==
  pc = "collected" =>
    \A kf \in KeyFieldPairs :
      /\ kf[1].Name = AttrValue(kf[2], ENVCONFIG)
      /\ (kf[1].Name = <<>>) <=> (AttrValue(kf[2], ENVCONFIG) = <<>>)

\* A key of an empty Name from a field tagged envconfig:"".
C6_Witness ==
  /\ pc = "collected"
  /\ \E kf \in KeyFieldPairs :
       /\ HasAttr(kf[2], ENVCONFIG)
       /\ AttrValue(kf[2], ENVCONFIG) = <<>>
       /\ kf[1].Name = <<>>
       /\ kf[2].ident # <<>>

\* The type names of the level-2 headings of an output, in output order.
HeadingsOf(lines) ==
  LET hs == SelectSeq(lines, LAMBDA l : l.kind = "h2")
  IN [k \in DOMAIN hs |-> hs[k].cells[1]]

\* The Name cells of the table rows of the section headed `name`.
RECURSIVE RowsUntilHeading(_)
RowsUntilHeading(lines) ==
  IF lines = <<>> \/ Head(lines).kind = "h2" THEN <<>>
  ELSE (IF Head(lines).kind = "row" THEN <<Head(lines).cells[1]>> ELSE <<>>)
       \o RowsUntilHeading(Tail(lines))

RowNamesOf(lines, name) ==
  LET at == CHOOSE k \in DOMAIN lines : lines[k].kind = "h2" /\ lines[k].cells[1] = name
  IN RowsUntilHeading(From(lines, at + 1))

\* C7: the output has one section per type of the model, the sections are in
\* ascending byte-wise order of type name, and the rows of a section are in
\* the order of the type's Keys.
C7_SectionsSortedByTypeName ==
  \A s \in Sinks :
    out[s].written =>
      LET hs == HeadingsOf(out[s].lines) IN
      /\ Len(hs) = Cardinality(DOMAIN configs)
      /\ {hs[k] : k \in DOMAIN hs} = DOMAIN configs
      /\ \A i, j \in DOMAIN hs : i < j => Compare(hs[i], hs[j]) < 0
      /\ \A n \in DOMAIN configs :
           RowNamesOf(out[s].lines, n) =
             [k \in DOMAIN configs[n].Keys |-> configs[n].Keys[k].Name]

\* An output in which the section of B comes before the section of a, as
\* their bytes order them.
C7_Witness ==
  /\ out[1].written
  /\ Cardinality(DOMAIN configs) >= 2
  /\ {<<"B">>, <<"a">>} \subseteq DOMAIN configs
  /\ \E i, j \in DOMAIN out[1].lines :
       /\ i < j
       /\ out[1].lines[i] = Line("h2", << <<"B">> >>)
       /\ out[1].lines[j] = Line("h2", << <<"a">> >>)

\* C8: two calls of writeMarkdown on the same model write the same bytes,
\* whatever order the map's iteration gives, and a call leaves the model as
\* it was.
C8_RenderingDeterministic ==
  /\ [](out[1].written /\ out[2].written => out[1].lines = out[2].lines)
  /\ [][(\E s \in Sinks : out'[s] # out[s]) => configs' = configs]_vars

\* Both sinks were written from a model of two types or more.
C8_Witness ==
  /\ out[1].written
  /\ out[2].written
  /\ Cardinality(DOMAIN configs) >= 2
  /\ out[1].lines # <<>>

\* The package the loop has just done.
DonePackage == pkgs[idx - 1]

\* C9: when a package declares a struct type name more than once, the
\* package's entry for the name is built from the last declaration's fields
\* alone, and there is no entry when the last declaration has no
\* envconfig-tagged field.
C9_LaterDeclarationReplaces ==
  (pc # "panic" /\ idx > 1) =>
    LET structs == StructsOf(DonePackage) IN
    \A n \in {m \in StructNames(structs) : Count(structs, m) > 1} :
      LET last == LastStruct(structs, n) IN
      IF TaggedFields(last.Fields) = <<>>
        THEN n \notin DOMAIN configInPkg
        ELSE /\ n \in DOMAIN configInPkg
             /\ KeysMatch(configInPkg[n].Keys, last.Fields)

\* A package declared a name twice, first with a tagged field and then with
\* none, and has no entry for it.
C9_Witness ==
  /\ pc # "panic"
  /\ idx > 1
  /\ LET structs == StructsOf(DonePackage) IN
     \E n \in StructNames(structs) :
       /\ Count(structs, n) > 1
       /\ \E k \in DOMAIN structs :
            structs[k].Name = n /\ TaggedFields(structs[k].Fields) # <<>>
       /\ TaggedFields(LastStruct(structs, n).Fields) = <<>>
       /\ n \notin DOMAIN configInPkg

\* A field that carries envconfig and whose type is no identifier.
TaggedNonIdent(field) == HasAttr(field, ENVCONFIG) /\ field.Type.kind # "Ident"

\* The package's collected structs (the last declaration of each name) have
\* such a field.
PackageFails(pkg) ==
  LET structs == StructsOf(pkg) IN
  \E n \in StructNames(structs) :
    LET last == LastStruct(structs, n) IN
    \E k \in DOMAIN last.Fields : TaggedNonIdent(last.Fields[k])

\* C10: extraction ends in the panic, returning no map, if and only if a
\* collected struct of some package has an envconfig-tagged field whose type
\* is no identifier; a non-identifier field with no tag, an empty tag or a
\* tag without envconfig does not make it fail.
C10_PanicIffTaggedNonIdent ==
  /\ pc = "panic" => (PackageFails(pkgs[idx]) /\ \A s \in Sinks : ~out[s].written)
  /\ pc = "collected" => \A k \in DOMAIN pkgs : ~PackageFails(pkgs[k])
  /\ pc = "collect" => \A k \in 1..(idx - 1) : ~PackageFails(pkgs[k])

\* The panic, in the second package, the first having a non-identifier field
\* with no tag.
C10_Witness ==
  /\ pc = "panic"
  /\ idx = 2
  /\ \E k \in DOMAIN AllStructs :
       \E j \in DOMAIN AllStructs[k].Fields :
         /\ AllStructs[k].Fields[j].Type.kind # "Ident"
         /\ ~AllStructs[k].Fields[j].hasTag
====
